---- MODULE Spec2Model ----
(***************************************************************************)
(* AI-GEO middleware: the credit ledger (app/services/credit.server.ts),   *)
(* the orchestrator generateProductSchema (app/services/ai.server.ts) and  *)
(* the tables they work on (prisma migrations).                            *)
(*                                                                         *)
(* Every await of the TypeScript code is a suspension point, so one        *)
(* action is the code that runs between two awaits; a single Prisma call   *)
(* (findUnique, create, update with decrement, upsert) is one atomic       *)
(* storage operation.                                                      *)
(***************************************************************************)
EXTENDS Integers, Sequences, FiniteSets, TLC

\* ---------------------------------------------------------------- bounds
NumAttempts == 2        \* concurrent generateProductSchema invocations
MaxInitCredits == 1     \* largest balance a shop row holds in Init
MaxAmount == 2          \* largest amount of a direct deductCredit/addCredits
MaxLedgerCalls == 2     \* direct ledger calls in one behaviour
MaxHashCalls == 2       \* generateProductHash calls in one behaviour
MaxBalanceCalls == 2    \* direct checkBalance / getBalance calls
MaxHops == 3            \* redirects a browser follows before it gives up
MaxSyncCalls == 2       \* syncSchemaToMetafield calls in one behaviour

\* ------------------------------------------------------ program constants
DefaultCredits == 10    \* "credits" INTEGER NOT NULL DEFAULT 10

Attempts == 1..NumAttempts
Shops == {"t1", "t2"}
Products == {"p1", "p2"}
Schemas == {"schemaA", "schemaB"}

VARIABLES
  shop,          \* table Shop: domain -> row, rows only for existing shops
  productState,  \* table ProductState: shopifyProductId -> row
  attempt,       \* one record per generateProductSchema invocation
  lastCall,      \* the last direct ledger call and what it returned
  ledgerCalls,   \* number of direct ledger calls so far
  ledgerLog,     \* the direct ledger calls so far, in the order they ran
  hashed,        \* the generateProductHash calls so far and their digests
  balanceLog,    \* the direct checkBalance / getBalance calls, in order
  nav,           \* the page request being served and the redirects followed
  syncLog        \* the syncSchemaToMetafield calls so far and their results

vars == <<shop, productState, attempt, lastCall, ledgerCalls, ledgerLog,
          hashed, balanceLog, nav, syncLog>>

\* ------------------------------------------------------------ the tables
\* Variant: a new Shop row counts as onboarded.
create_Onboarded(domain) ==
  [credits |-> DefaultCredits, brandVoice |-> "null", isOnboarded |-> TRUE]

\* A new Shop row: column defaults of the migrations.
create(domain) ==
  [credits |-> DefaultCredits, brandVoice |-> "null", isOnboarded |-> FALSE]

\* prisma.shop.findUnique: the row in a sequence, or <<>> for null.
findUnique(tbl, domain) ==
  IF domain \in DOMAIN tbl THEN <<tbl[domain]>> ELSE <<>>

Insert(tbl, domain, row) ==
  [d \in DOMAIN tbl \cup {domain} |-> IF d = domain THEN row ELSE tbl[d]]

\* SQL NULL, in a column whose values are strings here and in one whose
\* values are character sequences.
NullText == "null"
NullChars == <<"null">>

\* Variant: contentHash is declared without NOT NULL.
ProductStateColumns_NullableHash(row) ==
  /\ row.shop # NullText
  /\ row.isSynced \in BOOLEAN

\* CREATE TABLE "ProductState": shop, contentHash and isSynced are NOT NULL,
\* schemaBlob may be NULL (id and lastScannedAt are not modelled).
ProductStateColumns(row) ==
  /\ row.shop # NullText
  /\ row.contentHash # NullChars
  /\ row.isSynced \in BOOLEAN

\* ------------------------------------------------------------- hasher.ts
\* A JavaScript string is the sequence of its characters; the characters
\* used here are printable ASCII, whose UTF-8 encoding is one byte each
\* (codes 32 to 126 in order; the place of code 96 is left empty).
Printable ==
  <<" ", "!", "\"", "#", "$", "%", "&", "'", "(", ")", "*", "+", ",", "-",
    ".", "/", "0", "1", "2", "3", "4", "5", "6", "7", "8", "9", ":", ";",
    "<", "=", ">", "?", "@", "A", "B", "C", "D", "E", "F", "G", "H", "I",
    "J", "K", "L", "M", "N", "O", "P", "Q", "R", "S", "T", "U", "V", "W",
    "X", "Y", "Z", "[", "\\", "]", "^", "_", "", "a", "b", "c", "d", "e",
    "f", "g", "h", "i", "j", "k", "l", "m", "n", "o", "p", "q", "r", "s",
    "t", "u", "v", "w", "x", "y", "z", "{", "|", "}", "~">>

CharCode(c) == 31 + (CHOOSE i \in 1..Len(Printable) : Printable[i] = c)

\* hash.update(string): the UTF-8 bytes of the string.
utf8(str) == [i \in 1..Len(str) |-> CharCode(str[i])]

\* The property names of the Product interface and of other product data.
TitleKey == <<"t", "i", "t", "l", "e">>
DescriptionKey == <<"d", "e", "s", "c", "r", "i", "p", "t", "i", "o", "n">>
VendorKey == <<"v", "e", "n", "d", "o", "r">>
PriceKey == <<"p", "r", "i", "c", "e">>
SkuKey == <<"s", "k", "u">>

\* A JavaScript object is the sequence of its <<name, value>> properties in
\* insertion order; Get is the property access obj.name.
Get(obj, name) ==
  obj[CHOOSE i \in 1..Len(obj) : obj[i][1] = name][2]

\* An object of interface Product, built in the order of the declaration.
Product(title, description, vendor) ==
  <<<<TitleKey, title>>, <<DescriptionKey, description>>,
    <<VendorKey, vendor>>>>

\* JSON.stringify of a string: in quotes, with the quote and the backslash
\* escaped by a backslash (the strings here hold no control characters).
RECURSIVE Escape(_)
Escape(str) ==
  IF str = <<>> THEN <<>>
  ELSE (IF Head(str) \in {"\"", "\\"} THEN <<"\\", Head(str)>>
                                      ELSE <<Head(str)>>)
       \o Escape(Tail(str))

Quote(str) == <<"\"">> \o Escape(str) \o <<"\"">>

\* JSON.stringify of an object with string values: its properties in
\* insertion order, "name":"value", separated by commas, in braces.
RECURSIVE Members(_)
Members(obj) ==
  IF obj = <<>> THEN <<>>
  ELSE Quote(Head(obj)[1]) \o <<":">> \o Quote(Head(obj)[2])
       \o (IF Tail(obj) = <<>> THEN <<>> ELSE <<",">> \o Members(Tail(obj)))

stringify(obj) == <<"{">> \o Members(obj) \o <<"}">>

\* Variant: the three values are concatenated without names or separators.
normalized_Concatenated(product) ==
  Get(product, DescriptionKey) \o Get(product, TitleKey)
    \o Get(product, VendorKey)

\* Variant: the product object itself is serialised.
normalized_WholeObject(product) == stringify(product)

\* const normalized = JSON.stringify({description, title, vendor}): a new
\* object literal with the three properties in this order.
normalized(product) ==
  stringify(<<<<DescriptionKey, Get(product, DescriptionKey)>>,
              <<TitleKey, Get(product, TitleKey)>>,
              <<VendorKey, Get(product, VendorKey)>>>>)

\* createHash('sha256'): SHA-256 (FIPS 180-4) over the message bytes. A
\* 32-bit word is the pair <<high 16 bits, low 16 bits>>.
RECURSIVE BitXor(_, _, _)
BitXor(x, y, n) ==
  IF n = 0 THEN 0
  ELSE (((x % 2) + (y % 2)) % 2) + 2 * BitXor(x \div 2, y \div 2, n - 1)
RECURSIVE BitAnd(_, _, _)
BitAnd(x, y, n) ==
  IF n = 0 THEN 0
  ELSE ((x % 2) * (y % 2)) + 2 * BitAnd(x \div 2, y \div 2, n - 1)

XorNibble == [x \in 0..15 |-> [y \in 0..15 |-> BitXor(x, y, 4)]]
AndNibble == [x \in 0..15 |-> [y \in 0..15 |-> BitAnd(x, y, 4)]]

Xor16(x, y) ==
  XorNibble[x % 16][y % 16]
  + (16 * XorNibble[(x \div 16) % 16][(y \div 16) % 16])
  + (256 * XorNibble[(x \div 256) % 16][(y \div 256) % 16])
  + (4096 * XorNibble[x \div 4096][y \div 4096])
And16(x, y) ==
  AndNibble[x % 16][y % 16]
  + (16 * AndNibble[(x \div 16) % 16][(y \div 16) % 16])
  + (256 * AndNibble[(x \div 256) % 16][(y \div 256) % 16])
  + (4096 * AndNibble[x \div 4096][y \div 4096])

Xor(a, b) == <<Xor16(a[1], b[1]), Xor16(a[2], b[2])>>
And(a, b) == <<And16(a[1], b[1]), And16(a[2], b[2])>>
Not(a) == <<65535 - a[1], 65535 - a[2]>>
Add(a, b) ==
  LET lo == a[2] + b[2]
  IN <<(a[1] + b[1] + (lo \div 65536)) % 65536, lo % 65536>>

Pow2 == [n \in 0..16 |-> 2^n]
\* Rotation and shift to the right by n bits, 0 < n < 32.
Rotr(a, n) ==
  LET w == IF n >= 16 THEN <<a[2], a[1]>> ELSE a
      k == n % 16
  IN IF k = 0 THEN w
     ELSE <<(w[1] \div Pow2[k]) + ((w[2] % Pow2[k]) * Pow2[16 - k]),
            (w[2] \div Pow2[k]) + ((w[1] % Pow2[k]) * Pow2[16 - k])>>
Shr(a, n) ==
  IF n >= 16 THEN <<0, a[1] \div Pow2[n - 16]>>
  ELSE <<a[1] \div Pow2[n],
         (a[2] \div Pow2[n]) + ((a[1] % Pow2[n]) * Pow2[16 - n])>>

K == <<
    <<17034, 12184>>, <<28983, 17553>>, <<46528, 64463>>, <<59829, 56229>>,
    <<14678, 49755>>, <<23025, 4593>>, <<37439, 33444>>, <<43804, 24277>>,
    <<55303, 43672>>, <<4739, 23297>>, <<9265, 34238>>, <<21772, 32195>>,
    <<29374, 23924>>, <<32990, 45566>>, <<39900, 1703>>, <<49563, 61812>>,
    <<58523, 27073>>, <<61374, 18310>>, <<4033, 40390>>, <<9228, 41420>>,
    <<11753, 11375>>, <<19060, 33962>>, <<23728, 43484>>, <<30457, 35034>>,
    <<38974, 20818>>, <<43057, 50797>>, <<45059, 10184>>, <<48985, 32711>>,
    <<50912, 3059>>, <<54695, 37191>>, <<1738, 25425>>, <<5161, 10599>>,
    <<10167, 2693>>, <<11803, 8504>>, <<19756, 28156>>, <<21304, 3347>>,
    <<25866, 29524>>, <<30314, 2747>>, <<33218, 51502>>, <<37490, 11397>>,
    <<41663, 59553>>, <<43034, 26187>>, <<49739, 35696>>, <<51052, 20899>>,
    <<53650, 59417>>, <<54937, 1572>>, <<62478, 13701>>, <<4202, 41072>>,
    <<6564, 49430>>, <<7735, 27656>>, <<10056, 30540>>, <<13488, 48309>>,
    <<14620, 3251>>, <<20184, 43594>>, <<23452, 51791>>, <<26670, 28659>>,
    <<29839, 33518>>, <<30885, 25455>>, <<33992, 30740>>, <<36039, 520>>,
    <<37054, 65530>>, <<42064, 27883>>, <<48889, 41975>>, <<50801, 30962>>
>>
H0 == <<
    <<27145, 58983>>, <<47975, 44677>>, <<15470, 62322>>, <<42319, 62778>>,
    <<20750, 21119>>, <<39685, 26764>>, <<8067, 55723>>, <<23520, 52505>>
>>

Ch(e, f, g) == Xor(And(e, f), And(Not(e), g))
Maj(a, b, c) == Xor(Xor(And(a, b), And(a, c)), And(b, c))
Sigma0(a) == Xor(Xor(Rotr(a, 2), Rotr(a, 13)), Rotr(a, 22))
Sigma1(e) == Xor(Xor(Rotr(e, 6), Rotr(e, 11)), Rotr(e, 25))
sigma0(x) == Xor(Xor(Rotr(x, 7), Rotr(x, 18)), Shr(x, 3))
sigma1(x) == Xor(Xor(Rotr(x, 17), Rotr(x, 19)), Shr(x, 10))

\* Padding: the byte 0x80, zero bytes up to 56 mod 64, the bit length in 64
\* bits.
Pad(bytes) ==
  LET n == Len(bytes)
      z == (55 - n) % 64
      bits == 8 * n
  IN bytes \o <<128>> \o [i \in 1..z |-> 0]
       \o <<0, 0, 0, 0, 0, (bits \div 65536) % 256, (bits \div 256) % 256, bits % 256>>

Word(bs, i) == <<(bs[i] * 256) + bs[i + 1], (bs[i + 2] * 256) + bs[i + 3]>>

RECURSIVE Schedule(_)
Schedule(w) ==
  IF Len(w) = 64 THEN w
  ELSE LET t == Len(w) + 1
       IN Schedule(Append(w,
            Add(Add(sigma1(w[t - 2]), w[t - 7]), Add(sigma0(w[t - 15]), w[t - 16]))))

Round(s, w, t) ==
  LET t1 == Add(Add(Add(s[8], Sigma1(s[5])), Add(Ch(s[5], s[6], s[7]), K[t])), w[t])
      t2 == Add(Sigma0(s[1]), Maj(s[1], s[2], s[3]))
  IN <<Add(t1, t2), s[1], s[2], s[3], Add(s[4], t1), s[5], s[6], s[7]>>

\* ss: the working variables before round 1, after round 1, ..., after
\* round 64.
RECURSIVE Rounds(_, _)
Rounds(ss, w) ==
  IF Len(ss) = 65 THEN ss[65]
  ELSE Rounds(Append(ss, Round(ss[Len(ss)], w, Len(ss))), w)

Compress(h, block) ==
  LET w == Schedule([i \in 1..16 |-> Word(block, 4 * i - 3)])
      s == Rounds(<<h>>, w)
  IN [i \in 1..8 |-> Add(h[i], s[i])]

RECURSIVE Blocks(_, _)
Blocks(h, bs) ==
  IF bs = <<>> THEN h
  ELSE Blocks(Compress(h, SubSeq(bs, 1, 64)), SubSeq(bs, 65, Len(bs)))

sha256(bytes) ==
  LET h == Blocks(H0, Pad(bytes))
  IN [i \in 1..32 |->
        LET w == h[((i - 1) \div 4) + 1]
            half == w[(((i - 1) % 4) \div 2) + 1]
        IN IF i % 2 = 1 THEN half \div 256 ELSE half % 256]

\* Variant: the digits above 9 are capital letters.
hex_UpperCase(bytes) ==
  LET digits == <<"0", "1", "2", "3", "4", "5", "6", "7", "8", "9",
                  "A", "B", "C", "D", "E", "F">>
  IN [i \in 1..2 * Len(bytes) |->
        LET b == bytes[(i + 1) \div 2]
        IN digits[(IF i % 2 = 1 THEN b \div 16 ELSE b % 16) + 1]]

\* digest('hex'): two digits per byte, high nibble first.
hex(bytes) ==
  LET digits == <<"0", "1", "2", "3", "4", "5", "6", "7", "8", "9",
                  "a", "b", "c", "d", "e", "f">>
  IN [i \in 1..2 * Len(bytes) |->
        LET b == bytes[(i + 1) \div 2]
        IN digits[(IF i % 2 = 1 THEN b \div 16 ELSE b % 16) + 1]]

generateProductHash(product) == hex(sha256(utf8(normalized(product))))

\* ProductInput values the callers pass (title, description, vendor).
Catalog ==
  [p \in Products |->
     IF p = "p1"
       THEN Product(<<"W", "a", "l", "l", "e", "t">>,
                    <<"L", "e", "a", "t", "h", "e", "r">>,
                    <<"A", "r", "t", "i", "s", "a", "n">>)
       ELSE Product(<<"B", "e", "l", "t">>,
                    <<"L", "e", "a", "t", "h", "e", "r">>,
                    <<"A", "r", "t", "i", "s", "a", "n">>)]

\* The products the hasher is called with: every combination of a few
\* titles, descriptions and vendors, and for some of them the same values
\* in objects with other properties and another insertion order.
Titles == {<<"a">>, <<"A">>, <<>>, <<"\"">>}
Descriptions == {<<"a">>, <<>>}
Vendors == {<<>>, <<"\\">>}

Reordered(title, description, vendor) ==
  <<<<VendorKey, vendor>>, <<PriceKey, <<"9">>>>,
    <<DescriptionKey, description>>, <<TitleKey, title>>>>

WithSku(title, description, vendor) ==
  <<<<SkuKey, <<"\"">>>>, <<TitleKey, title>>,
    <<DescriptionKey, description>>, <<VendorKey, vendor>>,
    <<PriceKey, <<"1", "0">>>>>>

ProductInputs ==
  {Product(t, d, v) : t \in Titles, d \in Descriptions, v \in Vendors}
    \cup {Reordered(t, <<"a">>, <<>>) : t \in Titles}
    \cup {WithSku(t, <<"a">>, <<>>) : t \in Titles}

\* The digest of every product of the model, computed once.
ProductHash ==
  [product \in ProductInputs \cup {Catalog[p] : p \in Products} |->
     generateProductHash(product)]

\* The rows a client of the database may try to store for a product.
ProductStateRows ==
  [shop : {"t1"},
   contentHash : {NullChars} \cup {ProductHash[Catalog[p]] : p \in Products},
   schemaBlob : {NullText} \cup Schemas,
   isSynced : BOOLEAN]

\* A write of the row of shopifyProductId (insert or update; the unique
\* index keeps one row per product): the database takes it when the column
\* constraints hold and rejects it otherwise.
ProductStateWrite(shopifyProductId, row) ==
  /\ ProductStateColumns(row)
  /\ productState' = Insert(productState, shopifyProductId, row)
  /\ UNCHANGED <<shop, attempt, lastCall, ledgerCalls, ledgerLog, hashed,
                 balanceLog, nav, syncLog>>

\* A caller hashes a product and keeps the digest.
Hash(product) ==
  /\ Len(hashed) < MaxHashCalls
  /\ hashed' = Append(hashed, [product |-> product,
                               hash |-> ProductHash[product]])
  /\ UNCHANGED <<shop, productState, attempt, lastCall, ledgerCalls,
                 ledgerLog, balanceLog, nav, syncLog>>

\* ------------------------------------------------------- credit.server.ts
\* Variant: a balance of zero counts as having credits.
CheckBalanceResult_ZeroHasCredits(credits) ==
  [hasCredits |-> credits >= 0, balance |-> credits]

CheckBalanceResult(credits) ==
  [hasCredits |-> credits > 0, balance |-> credits]

\* Variant: no try/catch, the rejected update propagates.
deductCredit_NoCatch(tbl, shopId, amount, fault) ==
  IF fault \/ shopId \notin DOMAIN tbl
    THEN [shop |-> tbl, thrown |-> TRUE,
          result |-> [success |-> FALSE, newBalance |-> 0]]
    ELSE LET row == [tbl[shopId] EXCEPT !.credits = @ - amount]
         IN [shop |-> [tbl EXCEPT ![shopId] = row], thrown |-> FALSE,
             result |-> [success |-> TRUE, newBalance |-> row.credits]]

\* Variant: an upsert, as in addCredits, that provisions a missing shop.
deductCredit_Upsert(tbl, shopId, amount, fault) ==
  IF fault
    THEN [shop |-> tbl, thrown |-> FALSE,
          result |-> [success |-> FALSE, newBalance |-> 0]]
    ELSE LET row == IF shopId \in DOMAIN tbl
                      THEN [tbl[shopId] EXCEPT !.credits = @ - amount]
                      ELSE [create(shopId) EXCEPT !.credits = 10 - amount]
         IN [shop |-> Insert(tbl, shopId, row), thrown |-> FALSE,
             result |-> [success |-> TRUE, newBalance |-> row.credits]]

\* Variant: the amount argument is ignored, one credit is taken.
deductCredit_DefaultAmount(tbl, shopId, amount, fault) ==
  IF fault \/ shopId \notin DOMAIN tbl
    THEN [shop |-> tbl, thrown |-> FALSE,
          result |-> [success |-> FALSE, newBalance |-> 0]]
    ELSE LET row == [tbl[shopId] EXCEPT !.credits = @ - 1]
         IN [shop |-> [tbl EXCEPT ![shopId] = row], thrown |-> FALSE,
             result |-> [success |-> TRUE, newBalance |-> row.credits]]

\* deductCredit: prisma.shop.update with { decrement: amount }; a missing row
\* or a storage error (fault) lands in the catch clause, which returns.
deductCredit(tbl, shopId, amount, fault) ==
  IF fault \/ shopId \notin DOMAIN tbl
    THEN [shop |-> tbl, thrown |-> FALSE,
          result |-> [success |-> FALSE, newBalance |-> 0]]
    ELSE LET row == [tbl[shopId] EXCEPT !.credits = @ - amount]
         IN [shop |-> [tbl EXCEPT ![shopId] = row], thrown |-> FALSE,
             result |-> [success |-> TRUE, newBalance |-> row.credits]]

\* Variant: a new shop is created with the added amount only.
addCredits_CreateWithoutDefault(tbl, shopId, amount, fault) ==
  IF fault
    THEN [shop |-> tbl, thrown |-> FALSE,
          result |-> [success |-> FALSE, newBalance |-> 0]]
    ELSE LET row == IF shopId \in DOMAIN tbl
                      THEN [tbl[shopId] EXCEPT !.credits = @ + amount]
                      ELSE [create(shopId) EXCEPT !.credits = amount]
         IN [shop |-> Insert(tbl, shopId, row), thrown |-> FALSE,
             result |-> [success |-> TRUE, newBalance |-> row.credits]]

\* Variant: the update writes a value computed in the application from the
\* default balance instead of incrementing the stored one.
addCredits_AbsoluteWrite(tbl, shopId, amount, fault) ==
  IF fault
    THEN [shop |-> tbl, thrown |-> FALSE,
          result |-> [success |-> FALSE, newBalance |-> 0]]
    ELSE LET row == [create(shopId) EXCEPT !.credits = 10 + amount]
         IN [shop |-> Insert(tbl, shopId, row), thrown |-> FALSE,
             result |-> [success |-> TRUE, newBalance |-> row.credits]]

\* Variant: the update has no where clause, every row is incremented.
addCredits_EveryTenant(tbl, shopId, amount, fault) ==
  IF fault
    THEN [shop |-> tbl, thrown |-> FALSE,
          result |-> [success |-> FALSE, newBalance |-> 0]]
    ELSE LET row == IF shopId \in DOMAIN tbl
                      THEN [tbl[shopId] EXCEPT !.credits = @ + amount]
                      ELSE [create(shopId) EXCEPT !.credits = 10 + amount]
             all == [d \in DOMAIN tbl |->
                       [tbl[d] EXCEPT !.credits = @ + amount]]
         IN [shop |-> Insert(all, shopId, row), thrown |-> FALSE,
             result |-> [success |-> TRUE, newBalance |-> row.credits]]

\* addCredits: prisma.shop.upsert, create with 10 + amount or increment; an
\* error lands in the catch clause, which returns.
addCredits(tbl, shopId, amount, fault) ==
  IF fault
    THEN [shop |-> tbl, thrown |-> FALSE,
          result |-> [success |-> FALSE, newBalance |-> 0]]
    ELSE LET row == IF shopId \in DOMAIN tbl
                      THEN [tbl[shopId] EXCEPT !.credits = @ + amount]
                      ELSE [create(shopId) EXCEPT !.credits = 10 + amount]
         IN [shop |-> Insert(tbl, shopId, row), thrown |-> FALSE,
             result |-> [success |-> TRUE, newBalance |-> row.credits]]

\* ----------------------------------------------------------- ai.server.ts
Error402 ==
  <<"402", "Payment", "Required:", "No", "credits", "available.">>
ErrorOpenAI == <<"OpenAI", "API", "error">>
ErrorUnique == <<"Unique", "constraint", "failed", "on", "domain">>
ErrorValidation == <<"No", "object", "generated:", "response", "did", "not",
                     "match", "schema.">>
ErrorStatus402 == <<"Request", "failed", "with", "status", "402">>

\* Errors generateObject may reject with; their messages come from the
\* provider, the network or the SDK, not from this code.
AdapterErrors == {ErrorOpenAI, ErrorValidation, ErrorStatus402}

Call(op, ev, shopId, amount) ==
  [op |-> op, ev |-> ev, shopId |-> shopId, amount |-> amount]

NoBalance == [hasCredits |-> FALSE, balance |-> 0]
NoDeduct == [success |-> FALSE, newBalance |-> 0]

IdleAttempt ==
  [pc |-> "idle", shopId |-> "t1", product |-> "p1", before |-> <<>>,
   balance |-> NoBalance, schema |-> <<>>, deductResult |-> NoDeduct,
   result |-> <<>>, error |-> <<>>, calls |-> <<>>, debited |-> 0,
   response |-> <<>>, rejected |-> <<>>]

\* Variant: shops that are not onboarded are turned away at admission.
AfterCheckBalance_OnboardedOnly(at, bal) ==
  LET ret == Append(at.calls, Call("checkBalance", "return", at.shopId, 0))
  IN IF ~bal.hasCredits \/ at.before = <<>> \/ ~at.before[1].isOnboarded
       THEN [at EXCEPT !.pc = "thrown", !.balance = bal, !.calls = ret,
                       !.error = Error402]
       ELSE [at EXCEPT !.pc = "generateObject", !.balance = bal,
                       !.calls = Append(ret,
                          Call("generateObject", "call", at.shopId, 0))]

\* Variant: the credit is spent at admission, before the adapter is called.
AfterCheckBalance_DebitFirst(at, bal) ==
  LET ret == Append(at.calls, Call("checkBalance", "return", at.shopId, 0))
  IN IF ~bal.hasCredits
       THEN [at EXCEPT !.pc = "thrown", !.balance = bal, !.calls = ret,
                       !.error = Error402]
       ELSE [at EXCEPT !.pc = "deductCredit", !.balance = bal,
                       !.schema = <<"schemaA">>,
                       !.calls = Append(ret,
                          Call("deductCredit", "call", at.shopId, 1))]

\* Variant: the hasCredits test is missing.
AfterCheckBalance_NoGate(at, bal) ==
  [at EXCEPT !.pc = "generateObject", !.balance = bal,
             !.calls = at.calls \o
                <<Call("checkBalance", "return", at.shopId, 0),
                  Call("generateObject", "call", at.shopId, 0)>>]

\* Lines 83-96: checkBalance has returned bal; throw 402 or call the adapter.
AfterCheckBalance(at, bal) ==
  LET ret == Append(at.calls, Call("checkBalance", "return", at.shopId, 0))
  IN IF ~bal.hasCredits
       THEN [at EXCEPT !.pc = "thrown", !.balance = bal, !.calls = ret,
                       !.error = Error402]
       ELSE [at EXCEPT !.pc = "generateObject", !.balance = bal,
                       !.calls = Append(ret,
                          Call("generateObject", "call", at.shopId, 0))]

\* Variant: a credit of an existing shop is reserved when the attempt is
\* admitted, ahead of the generation.
Begin_ReservesCredit(a, shopId, product) ==
  LET found == findUnique(shop, shopId)
      at == [attempt[a] EXCEPT
               !.shopId = shopId, !.product = product, !.before = found,
               !.calls = <<Call("checkBalance", "call", shopId, 0)>>]
  IN /\ attempt[a].pc = "idle"
     /\ \A b \in Attempts : b < a => attempt[b].pc # "idle"
     /\ attempt' = [attempt EXCEPT ![a] =
          IF found = <<>>
            THEN [at EXCEPT !.pc = "create"]
            ELSE AfterCheckBalance(at, CheckBalanceResult(found[1].credits))]
     /\ shop' = IF found # <<>> /\ found[1].credits > 0
                 THEN [shop EXCEPT ![shopId].credits = @ - 1]
                 ELSE shop
     /\ UNCHANGED <<productState, lastCall, ledgerCalls, ledgerLog, hashed,
                    balanceLog, nav, syncLog>>

\* generateProductSchema is invoked: line 82 calls checkBalance, whose
\* findUnique reads the shop row; an existing shop is reported, a missing one
\* is created next.
Begin(a, shopId, product) ==
  LET found == findUnique(shop, shopId)
      at == [attempt[a] EXCEPT
               !.shopId = shopId, !.product = product, !.before = found,
               !.calls = <<Call("checkBalance", "call", shopId, 0)>>]
  IN /\ attempt[a].pc = "idle"
     /\ \A b \in Attempts : b < a => attempt[b].pc # "idle"
     /\ attempt' = [attempt EXCEPT ![a] =
          IF found = <<>>
            THEN [at EXCEPT !.pc = "create"]
            ELSE AfterCheckBalance(at, CheckBalanceResult(found[1].credits))]
     /\ UNCHANGED <<shop, productState, lastCall, ledgerCalls, ledgerLog, hashed,
                    balanceLog, nav, syncLog>>

\* checkBalance, create resolves: the unique index on domain rejects it when
\* another request made the row in between, and the rejection propagates.
CheckBalanceCreate(a) ==
  LET at == attempt[a]
  IN /\ at.pc = "create"
     /\ IF at.shopId \in DOMAIN shop
          THEN /\ attempt' = [attempt EXCEPT ![a] =
                    [at EXCEPT !.pc = "thrown", !.error = ErrorUnique,
                       !.calls = Append(at.calls,
                          Call("checkBalance", "throw", at.shopId, 0))]]
               /\ shop' = shop
          ELSE /\ shop' = Insert(shop, at.shopId, create(at.shopId))
               /\ attempt' = [attempt EXCEPT ![a] =
                    AfterCheckBalance(at,
                       CheckBalanceResult(create(at.shopId).credits))]
     /\ UNCHANGED <<productState, lastCall, ledgerCalls, ledgerLog, hashed,
                    balanceLog, nav, syncLog>>

\* Variant: two credits are charged for a generation.
AfterGenerate_DeductsTwo(at, schema) ==
  [at EXCEPT !.pc = "deductCredit", !.schema = <<schema>>,
             !.calls = at.calls \o
                <<Call("generateObject", "return", at.shopId, 0),
                  Call("deductCredit", "call", at.shopId, 2)>>]

\* Lines 91-99: generateObject resolves with a schema-valid object and
\* deductCredit(shopId, 1) is called.
AfterGenerate(at, schema) ==
  [at EXCEPT !.pc = "deductCredit", !.schema = <<schema>>,
             !.calls = at.calls \o
                <<Call("generateObject", "return", at.shopId, 0),
                  Call("deductCredit", "call", at.shopId, 1)>>]

GenerateObjectReturn(a, schema) ==
  /\ attempt[a].pc = "generateObject"
  /\ attempt' = [attempt EXCEPT ![a] = AfterGenerate(@, schema)]
  /\ UNCHANGED <<shop, productState, lastCall, ledgerCalls, ledgerLog, hashed,
                 balanceLog, nav, syncLog>>

\* Variant: the rejection is caught and the credit is spent all the same.
AfterGenerateThrow_StillDeducts(at) ==
  [at EXCEPT !.pc = "deductCredit", !.schema = <<"schemaA">>,
             !.calls = at.calls \o
                <<Call("generateObject", "throw", at.shopId, 0),
                  Call("deductCredit", "call", at.shopId, 1)>>]

\* Variant: a first rejection is answered by calling the adapter again.
AfterGenerateReject_RetriesOnce(at, err) ==
  LET thrown == Append(at.calls,
                       Call("generateObject", "throw", at.shopId, 0))
  IN IF \E i \in 1..Len(at.calls) : at.calls[i].ev = "throw"
       THEN [at EXCEPT !.pc = "thrown", !.error = err, !.rejected = <<err>>,
                       !.calls = thrown]
       ELSE [at EXCEPT !.calls = Append(thrown,
                          Call("generateObject", "call", at.shopId, 0))]

\* Line 91: generateObject rejects with err; there is no try/catch, so err
\* itself is what generateProductSchema rejects with.
AfterGenerateReject(at, err) ==
  [at EXCEPT !.pc = "thrown", !.error = err, !.rejected = <<err>>,
             !.calls = Append(at.calls,
                Call("generateObject", "throw", at.shopId, 0))]

\* The rejection of the test: new Error('OpenAI API error').
AfterGenerateThrow(at) == AfterGenerateReject(at, ErrorOpenAI)

GenerateObjectThrow(a) ==
  /\ attempt[a].pc = "generateObject"
  /\ attempt' = [attempt EXCEPT ![a] = AfterGenerateThrow(@)]
  /\ UNCHANGED <<shop, productState, lastCall, ledgerCalls, ledgerLog, hashed,
                 balanceLog, nav, syncLog>>

GenerateObjectReject(a, err) ==
  /\ attempt[a].pc = "generateObject"
  /\ attempt' = [attempt EXCEPT ![a] = AfterGenerateReject(@, err)]
  /\ UNCHANGED <<shop, productState, lastCall, ledgerCalls, ledgerLog, hashed,
                 balanceLog, nav, syncLog>>

\* The process ends while the attempt is suspended in one of its awaits;
\* the attempt takes no further step.
Abandon(a) ==
  /\ attempt[a].pc \in {"create", "generateObject", "deductCredit"}
  /\ attempt' = [attempt EXCEPT ![a].pc = "abandoned"]
  /\ UNCHANGED <<shop, productState, lastCall, ledgerCalls, ledgerLog, hashed,
                 balanceLog, nav, syncLog>>

\* A JSON-LD object that ProductSchemaZod accepts; its name tells the
\* objects of Schemas apart.
SchemaObject(name) ==
  [context |-> "https://schema.org", type |-> "Product", name |-> name,
   description |-> "Leather", brand |-> [type |-> "Brand", name |-> "Artisan"]]

\* What the model may answer: a conforming object, one without the required
\* name, one with another @context, one with another @type.
RawResponses ==
  {SchemaObject("schemaA"),
   [context |-> "https://schema.org", type |-> "Product",
    description |-> "Leather", brand |-> [type |-> "Brand", name |-> "Artisan"]],
   [SchemaObject("schemaA") EXCEPT !.context = "http://schema.org"],
   [SchemaObject("schemaB") EXCEPT !.type = "Thing"]}

\* Variant: the z.literal tests are plain z.string tests.
ProductSchemaZod_NoLiterals(obj) ==
  /\ {"context", "type", "name", "description", "brand"} \subseteq DOMAIN obj
  /\ {"type", "name"} \subseteq DOMAIN obj.brand

\* Lines 19-41: the required fields of ProductSchemaZod and their literals
\* (the optional fields constrain nothing that is modelled).
ProductSchemaZod(obj) ==
  /\ {"context", "type", "name", "description", "brand"} \subseteq DOMAIN obj
  /\ obj.context = "https://schema.org"
  /\ obj.type = "Product"
  /\ {"type", "name"} \subseteq DOMAIN obj.brand
  /\ obj.brand.type = "Brand"

\* Lines 91-96: generateObject checks the model's answer against the schema
\* it was given and rejects when the answer does not conform.
AfterGenerateObject(at, obj) ==
  LET got == [at EXCEPT !.response = <<obj>>]
  IN IF ProductSchemaZod(obj)
       THEN AfterGenerate(got, obj.name)
       ELSE AfterGenerateReject(got, ErrorValidation)

GenerateObjectResponse(a, obj) ==
  /\ attempt[a].pc = "generateObject"
  /\ attempt' = [attempt EXCEPT ![a] = AfterGenerateObject(@, obj)]
  /\ UNCHANGED <<shop, productState, lastCall, ledgerCalls, ledgerLog, hashed,
                 balanceLog, nav, syncLog>>

\* Variant: creditsRemaining is computed from the balance checkBalance saw.
GenerateSchemaResult_StaleBalance(at, deductResult) ==
  [schema |-> at.schema[1], creditsRemaining |-> at.balance.balance - 1]

\* Lines 101-104: the value generateProductSchema resolves with.
GenerateSchemaResult(at, deductResult) ==
  [schema |-> at.schema[1], creditsRemaining |-> deductResult.newBalance]

\* Lines 99-104: the update of the pending deductCredit call runs and the
\* call resolves; the result is returned whatever deductResult.success is.
DeductCreditReturn(a, fault) ==
  LET at == attempt[a]
      pending == at.calls[Len(at.calls)]
      d == deductCredit(shop, pending.shopId, pending.amount, fault)
  IN /\ at.pc = "deductCredit"
     /\ shop' = d.shop
     /\ attempt' = [attempt EXCEPT ![a] =
          [at EXCEPT !.pc = "returned", !.deductResult = d.result,
                     !.result = <<GenerateSchemaResult(at, d.result)>>,
                     !.debited = IF d.result.success THEN pending.amount ELSE 0,
                     !.calls = Append(at.calls,
                        [pending EXCEPT !.ev = "return"])]]
     /\ UNCHANGED <<productState, lastCall, ledgerCalls, ledgerLog, hashed,
                    balanceLog, nav, syncLog>>

\* ------------------------------------------------- direct ledger callers
NoCall ==
  [op |-> "none", shopId |-> "t1", amount |-> 0, before |-> <<>>,
   result |-> NoDeduct, fault |-> FALSE, thrown |-> FALSE]

DeductCredit(shopId, amount, fault) ==
  LET d == deductCredit(shop, shopId, amount, fault)
  IN /\ ledgerCalls < MaxLedgerCalls
     /\ ledgerCalls' = ledgerCalls + 1
     /\ shop' = d.shop
     /\ lastCall' = [op |-> "deductCredit", shopId |-> shopId,
                     amount |-> amount, before |-> findUnique(shop, shopId),
                     result |-> d.result, fault |-> fault,
                     thrown |-> d.thrown]
     /\ ledgerLog' = Append(ledgerLog, lastCall')
     /\ UNCHANGED <<productState, attempt, hashed,
                    balanceLog, nav, syncLog>>

AddCredits(shopId, amount, fault) ==
  LET d == addCredits(shop, shopId, amount, fault)
  IN /\ ledgerCalls < MaxLedgerCalls
     /\ ledgerCalls' = ledgerCalls + 1
     /\ shop' = d.shop
     /\ lastCall' = [op |-> "addCredits", shopId |-> shopId,
                     amount |-> amount, before |-> findUnique(shop, shopId),
                     result |-> d.result, fault |-> fault,
                     thrown |-> d.thrown]
     /\ ledgerLog' = Append(ledgerLog, lastCall')
     /\ UNCHANGED <<productState, attempt, hashed,
                    balanceLog, nav, syncLog>>

\* ------------------------------------ direct callers of checkBalance
\* Ledger writes completed so far: direct deductCredit / addCredits calls and
\* the deductCredit of finished generations.
LedgerOps ==
  ledgerCalls + Cardinality({a \in Attempts : attempt[a].pc = "returned"})

\* A direct call of checkBalance or of getBalance; nothing returned yet. The
\* record keeps the row findUnique read and how many ledger writes had
\* completed by then.
BalanceCall(op, shopId, found) ==
  [op |-> op, shopId |-> shopId, pc |-> "create", before |-> found,
   ledgerOps |-> LedgerOps,
   result |-> NoBalance, balance |-> 0, error |-> <<>>]

\* getBalance: awaits checkBalance and returns result.balance.
getBalance(result) == result.balance

\* checkBalance returns to its caller; getBalance passes the balance on.
BalanceReturn(call, result) ==
  [call EXCEPT !.pc = "returned", !.result = result,
               !.balance = IF call.op = "getBalance" THEN getBalance(result)
                                                     ELSE 0]

\* Variant: the lookup also writes, it takes one credit from the row it read.
CheckBalance_TakesCredit(op, shopId) ==
  LET found == findUnique(shop, shopId)
      call == BalanceCall(op, shopId, found)
  IN /\ Len(balanceLog) < MaxBalanceCalls
     /\ IF balanceLog = <<>> THEN TRUE
          ELSE balanceLog[Len(balanceLog)].pc # "create"
     /\ balanceLog' = Append(balanceLog,
          IF found = <<>>
            THEN call
            ELSE BalanceReturn(call, CheckBalanceResult(found[1].credits)))
     /\ shop' = IF found = <<>> THEN shop
                ELSE [shop EXCEPT ![shopId].credits = @ - 1]
     /\ UNCHANGED <<productState, attempt, lastCall, ledgerCalls, ledgerLog,
                    hashed, nav, syncLog>>

\* checkBalance(shopId), called directly or through getBalance (op): its
\* findUnique reads the row; an existing shop is reported at once, a missing
\* one is created in the next step. A caller awaits one call at a time.
CheckBalance(op, shopId) ==
  LET found == findUnique(shop, shopId)
      call == BalanceCall(op, shopId, found)
  IN /\ Len(balanceLog) < MaxBalanceCalls
     /\ IF balanceLog = <<>> THEN TRUE
          ELSE balanceLog[Len(balanceLog)].pc # "create"
     /\ balanceLog' = Append(balanceLog,
          IF found = <<>>
            THEN call
            ELSE BalanceReturn(call, CheckBalanceResult(found[1].credits)))
     /\ shop' = shop
     /\ UNCHANGED <<productState, attempt, lastCall, ledgerCalls, ledgerLog,
                    hashed, nav, syncLog>>

\* checkBalance, the create of a missing shop resolves: the unique index on
\* domain rejects it when the row was made in between, and nothing catches.
CheckBalanceProvision ==
  LET n == Len(balanceLog)
      call == balanceLog[n]
  IN /\ n > 0
     /\ call.pc = "create"
     /\ IF call.shopId \in DOMAIN shop
          THEN /\ balanceLog' = [balanceLog EXCEPT ![n] =
                    [call EXCEPT !.pc = "thrown", !.error = ErrorUnique]]
               /\ shop' = shop
          ELSE /\ shop' = Insert(shop, call.shopId, create(call.shopId))
               /\ balanceLog' = [balanceLog EXCEPT ![n] =
                    BalanceReturn(call,
                       CheckBalanceResult(create(call.shopId).credits))]
     /\ UNCHANGED <<productState, attempt, lastCall, ledgerCalls, ledgerLog,
                    hashed, nav, syncLog>>

\* ------------------------------------------------------ app.onboarding.tsx
\* BRAND_TONES: the prompt stored as brandVoice for each tone.
BRAND_TONES ==
  [minimalist |-> "Be extremely concise. Focus only on factual specifications. No marketing language. Just the facts.",
   storyteller |-> "Be warm and engaging. Tell the story behind the product. Use inviting language that connects emotionally.",
   enterprise |-> "Be professional and authoritative. Emphasize quality, reliability, and business value. Formal tone."]

\* What formData.get('brandTone') may hold: a tone, or nothing.
BrandToneInputs == DOMAIN BRAND_TONES \cup {""}

\* Variant: the upsert writes a fresh row, column defaults included.
approve_ResetsCredits(tbl, shopDomain, brandTone) ==
  Insert(tbl, shopDomain,
         [create(shopDomain) EXCEPT !.brandVoice = BRAND_TONES[brandTone],
                                    !.isOnboarded = TRUE])

\* The upsert of intent 'approve': an existing row gets brandVoice and
\* isOnboarded, a missing one is created with them and the column defaults.
approve(tbl, shopDomain, brandTone) ==
  LET row == IF shopDomain \in DOMAIN tbl THEN tbl[shopDomain]
                                          ELSE create(shopDomain)
  IN Insert(tbl, shopDomain,
            [row EXCEPT !.brandVoice = BRAND_TONES[brandTone],
                        !.isOnboarded = TRUE])

\* action, intent 'approve': without a brandTone an error is returned,
\* otherwise the upsert runs (whatever isOnboarded is) and /app is next.
Approve(shopDomain, brandTone) ==
  /\ shop' = IF brandTone = "" THEN shop
                               ELSE approve(shop, shopDomain, brandTone)
  /\ lastCall' = [NoCall EXCEPT !.op = "approve", !.shopId = shopDomain,
                                !.before = findUnique(shop, shopDomain),
                                !.result.success = brandTone # ""]
  /\ UNCHANGED <<productState, attempt, ledgerCalls, ledgerLog, hashed,
                 balanceLog, nav, syncLog>>

\* ------------------------------------------------- the two page loaders
\* No page was requested yet.
NoNav ==
  [pc |-> "none", shopDomain |-> "t1", page |-> "/app", hops |-> 0,
   first |-> "/app", started |-> <<>>]

\* Variant: the dashboard sends every merchant to the onboarding page.
dashboardLoader_AlwaysRedirects(tbl, shopDomain) == <<"/app/onboarding">>

\* app._index.tsx loader: redirect('/app/onboarding') when !shop?.isOnboarded,
\* the target in a sequence; <<>> when the page is rendered.
dashboardLoader(tbl, shopDomain) ==
  LET found == findUnique(tbl, shopDomain)
  IN IF found = <<>> \/ ~found[1].isOnboarded THEN <<"/app/onboarding">>
                                              ELSE <<>>

\* app.onboarding.tsx loader: redirect('/app') when shop?.isOnboarded.
onboardingLoader(tbl, shopDomain) ==
  LET found == findUnique(tbl, shopDomain)
  IN IF found # <<>> /\ found[1].isOnboarded THEN <<"/app">> ELSE <<>>

\* The route table: which loader serves which path.
loader(page, tbl, shopDomain) ==
  IF page = "/app" THEN dashboardLoader(tbl, shopDomain)
                   ELSE onboardingLoader(tbl, shopDomain)

\* The merchant's browser requests a page of the app.
Navigate(shopDomain, page) ==
  /\ nav.pc # "requested"
  /\ nav' = [pc |-> "requested", shopDomain |-> shopDomain, page |-> page,
             hops |-> 0, first |-> page,
             started |-> findUnique(shop, shopDomain)]
  /\ UNCHANGED <<shop, productState, attempt, lastCall, ledgerCalls,
                 ledgerLog, hashed, balanceLog, syncLog>>

\* The loader of the requested page runs: the page is rendered, or the
\* browser follows the redirect and requests the target.
Load ==
  LET to == loader(nav.page, shop, nav.shopDomain)
  IN /\ nav.pc = "requested"
     /\ nav.hops < MaxHops
     /\ nav' = IF to = <<>> THEN [nav EXCEPT !.pc = "rendered"]
                            ELSE [nav EXCEPT !.page = to[1], !.hops = @ + 1]
     /\ UNCHANGED <<shop, productState, attempt, lastCall, ledgerCalls,
                    ledgerLog, hashed, balanceLog, syncLog>>

\* ------------------------------------------------- schema-sync.server.ts
\* Values a rejected promise may carry: an Error with its message, or
\* something that is not an Error.
ErrorNetwork == [isError |-> TRUE, message |-> <<"fetch", "failed">>]
ErrorSyntax == [isError |-> TRUE, message |-> <<"Unexpected", "token">>]
NotAnError == [isError |-> FALSE, message |-> <<"timeout">>]

\* userErrors of metafieldsSet, each with its message.
UserErrorLists ==
  {<<>>,
   <<[message |-> <<"Value", "is", "invalid", "JSON">>]>>,
   <<[message |-> <<"Owner", "not", "found">>],
     [message |-> <<"Key", "is", "too", "long">>]>>}

\* What response.json() may decode to: no data, data without metafieldsSet,
\* or the payload with its metafields and userErrors; an absent member is
\* <<>>, a present one is wrapped in a sequence.
MetafieldsSetPayloads ==
  {[metafields |-> m, userErrors |-> u] :
     m \in {<<>>, <<<<>>>>, <<<<[id |-> "gid1"]>>>>},
     u \in {<<>>} \cup {<<l>> : l \in UserErrorLists}}

ResponseBodies ==
  {[data |-> <<>>], [data |-> <<[metafieldsSet |-> <<>>]>>]}
    \cup {[data |-> <<[metafieldsSet |-> <<pl>>]>>] :
             pl \in MetafieldsSetPayloads}

\* What the admin client does with the mutation: admin.graphql rejects,
\* response.json() rejects, or a body is decoded.
Deliveries ==
  {[at |-> "graphql", thrown |-> e, body |-> [data |-> <<>>]] :
     e \in {ErrorNetwork, NotAnError}}
    \cup {[at |-> "json", thrown |-> e, body |-> [data |-> <<>>]] :
             e \in {ErrorSyntax, NotAnError}}
    \cup {[at |-> "decoded", thrown |-> NotAnError, body |-> b] :
             b \in ResponseBodies}

\* Array.prototype.join(', ') over the messages.
RECURSIVE join(_)
join(messages) ==
  IF messages = <<>> THEN <<>>
  ELSE IF Len(messages) = 1 THEN messages[1]
  ELSE messages[1] \o <<", ">> \o join(Tail(messages))

\* data.userErrors.map(e => e.message)
Messages(userErrors) == [i \in 1..Len(userErrors) |-> userErrors[i].message]

\* The catch clause: error instanceof Error ? error.message : 'Unknown error'.
SyncCaught(thrown) ==
  [success |-> FALSE, metafieldId |-> <<>>,
   error |-> <<IF thrown.isError THEN thrown.message
                                 ELSE <<"Unknown", "error">>>>,
   threw |-> FALSE]

\* The statements of the try block once the body is decoded (lines 69-81).
SyncDecoded(body) ==
  LET data == IF body.data = <<>> THEN <<>> ELSE body.data[1].metafieldsSet
      userErrors == IF data = <<>> \/ data[1].userErrors = <<>>
                      THEN <<>> ELSE data[1].userErrors[1]
      metafields == IF data = <<>> \/ data[1].metafields = <<>>
                      THEN <<>> ELSE data[1].metafields[1]
  IN IF Len(userErrors) > 0
       THEN [success |-> FALSE, metafieldId |-> <<>>,
             error |-> <<join(Messages(userErrors))>>, threw |-> FALSE]
       ELSE [success |-> TRUE,
             metafieldId |-> IF metafields = <<>> THEN <<>>
                             ELSE <<metafields[1].id>>,
             error |-> <<>>, threw |-> FALSE]

\* Variant: no try/catch, a rejection of the client propagates.
syncSchemaToMetafield_NoCatch(delivery) ==
  IF delivery.at = "decoded"
    THEN SyncDecoded(delivery.body)
    ELSE [success |-> FALSE, metafieldId |-> <<>>, error |-> <<>>,
          threw |-> TRUE]

\* syncSchemaToMetafield: the whole body is inside try, the catch returns.
syncSchemaToMetafield(delivery) ==
  IF delivery.at = "decoded"
    THEN SyncDecoded(delivery.body)
    ELSE SyncCaught(delivery.thrown)

\* A caller syncs the schema of a product.
Sync(productId, delivery) ==
  /\ Len(syncLog) < MaxSyncCalls
  /\ syncLog' = Append(syncLog,
       [productId |-> productId, delivery |-> delivery,
        result |-> syncSchemaToMetafield(delivery)])
  /\ UNCHANGED <<shop, productState, attempt, lastCall, ledgerCalls,
                 ledgerLog, hashed, balanceLog, nav>>

\* ----------------------------------------------------------- behaviours
ShopRow(c) == [credits |-> c, brandVoice |-> "null", isOnboarded |-> FALSE]

InitShops ==
  UNION {[D -> {ShopRow(c) : c \in 0..MaxInitCredits}] : D \in SUBSET Shops}

\* ProductState rows the database may hold for the catalog: none, or the
\* row of a product scanned with its current fields.
ScannedRow(p) ==
  [shop |-> "t1", contentHash |-> ProductHash[Catalog[p]],
   schemaBlob |-> "schemaA", isSynced |-> FALSE]

InitProductStates ==
  {[p \in D |-> ScannedRow(p)] : D \in {{}, {"p1"}}}

Init ==
  /\ shop \in InitShops
  /\ productState \in InitProductStates
  /\ attempt = [a \in Attempts |-> IdleAttempt]
  /\ lastCall = NoCall
  /\ ledgerCalls = 0
  /\ ledgerLog = <<>>
  /\ hashed = <<>>
  /\ balanceLog = <<>>
  /\ nav = NoNav
  /\ syncLog = <<>>

\* The orchestrator's requests.
Next ==
  \/ \E a \in Attempts, s \in Shops, p \in Products : Begin(a, s, p)
  \/ \E a \in Attempts : CheckBalanceCreate(a)
  \/ \E a \in Attempts, schema \in Schemas : GenerateObjectReturn(a, schema)
  \/ \E a \in Attempts : GenerateObjectThrow(a)
  \/ \E a \in Attempts, fault \in BOOLEAN : DeductCreditReturn(a, fault)

Spec == Init /\ [][Next]_vars

\* The orchestrator's requests, with the adapter's raw answers.
ValidationNext ==
  \/ \E a \in Attempts, s \in Shops, p \in Products : Begin(a, s, p)
  \/ \E a \in Attempts : CheckBalanceCreate(a)
  \/ \E a \in Attempts, obj \in RawResponses : GenerateObjectResponse(a, obj)
  \/ \E a \in Attempts : GenerateObjectThrow(a)
  \/ \E a \in Attempts, fault \in BOOLEAN : DeductCreditReturn(a, fault)

ValidationSpec == Init /\ [][ValidationNext]_vars

\* The onboarding page of one merchant (session.shop): preview generations of
\* the first product and approvals.
OnboardingInit ==
  /\ Init
  /\ DOMAIN productState = {}
  /\ DOMAIN shop \subseteq {"t1"}

OnboardingNext ==
  \/ \E a \in Attempts : Begin(a, "t1", "p1")
  \/ \E a \in Attempts : CheckBalanceCreate(a)
  \/ \E a \in Attempts : GenerateObjectReturn(a, "schemaA")
  \/ \E a \in Attempts : GenerateObjectThrow(a)
  \/ \E a \in Attempts, fault \in BOOLEAN : DeductCreditReturn(a, fault)
  \/ \E tone \in BrandToneInputs : Approve("t1", tone)

OnboardingSpec == OnboardingInit /\ [][OnboardingNext]_vars

\* Direct callers of the ledger.
LedgerNext ==
  \/ \E s \in Shops, n \in 0..MaxAmount, fault \in BOOLEAN :
        DeductCredit(s, n, fault)
  \/ \E s \in Shops, n \in 0..MaxAmount, fault \in BOOLEAN :
        AddCredits(s, n, fault)

LedgerSpec == Init /\ [][LedgerNext]_vars

\* The requests of one merchant for one product, with every way the adapter
\* may fail and with the process ending in the middle of a request.
FailureInit ==
  /\ Init
  /\ DOMAIN productState = {}
  /\ DOMAIN shop \subseteq {"t1"}

FailureNext ==
  \/ \E a \in Attempts : Begin(a, "t1", "p1")
  \/ \E a \in Attempts : CheckBalanceCreate(a)
  \/ \E a \in Attempts : GenerateObjectReturn(a, "schemaA")
  \/ \E a \in Attempts, err \in AdapterErrors : GenerateObjectReject(a, err)
  \/ \E a \in Attempts, fault \in BOOLEAN : DeductCreditReturn(a, fault)
  \/ \E a \in Attempts : Abandon(a)

FailureSpec == FailureInit /\ [][FailureNext]_vars

\* Writers of the ProductState table.
StorageInit ==
  /\ Init
  /\ DOMAIN shop = {}

StorageNext ==
  \E p \in Products, row \in ProductStateRows : ProductStateWrite(p, row)

StorageSpec == StorageInit /\ [][StorageNext]_vars

\* One merchant's requests when no process ends early and every pending
\* boundary call of an attempt eventually resolves or rejects.
Resolve(a) ==
  \/ CheckBalanceCreate(a)
  \/ GenerateObjectReturn(a, "schemaA")
  \/ \E err \in AdapterErrors : GenerateObjectReject(a, err)
  \/ \E fault \in BOOLEAN : DeductCreditReturn(a, fault)

FairNext ==
  \/ \E a \in Attempts : Begin(a, "t1", "p1")
  \/ \E a \in Attempts : Resolve(a)

FairSpec ==
  /\ FailureInit
  /\ [][FairNext]_vars
  /\ \A a \in Attempts : WF_vars(Resolve(a))

\* Every caller of the ledger for two merchants: one page request that
\* generates, and one client that calls checkBalance, getBalance,
\* deductCredit and addCredits directly, MaxLedgerCalls times in all.
TenantInit ==
  /\ Init
  /\ DOMAIN productState = {}

ClientMayCall == ledgerCalls + Len(balanceLog) < MaxLedgerCalls

TenantNext ==
  \/ \E s \in Shops : Begin(1, s, "p1")
  \/ CheckBalanceCreate(1)
  \/ GenerateObjectReturn(1, "schemaA")
  \/ GenerateObjectThrow(1)
  \/ \E fault \in BOOLEAN : DeductCreditReturn(1, fault)
  \/ /\ ClientMayCall
     /\ \E op \in {"checkBalance", "getBalance"}, s \in Shops :
           CheckBalance(op, s)
  \/ CheckBalanceProvision
  \/ /\ ClientMayCall
     /\ \E s \in Shops, fault \in BOOLEAN : DeductCredit(s, 1, fault)
  \/ /\ ClientMayCall
     /\ \E s \in Shops, fault \in BOOLEAN : AddCredits(s, 1, fault)

TenantSpec == TenantInit /\ [][TenantNext]_vars

\* One merchant's life with the app: a preview, approvals, and a client that
\* calls the ledger directly, MaxLedgerCalls times in all.
LifecycleInit ==
  /\ Init
  /\ DOMAIN productState = {}
  /\ DOMAIN shop \subseteq {"t1"}

LifecycleNext ==
  \/ Begin(1, "t1", "p1")
  \/ CheckBalanceCreate(1)
  \/ GenerateObjectReturn(1, "schemaA")
  \/ GenerateObjectThrow(1)
  \/ \E fault \in BOOLEAN : DeductCreditReturn(1, fault)
  \/ /\ ClientMayCall
     /\ \E op \in {"checkBalance", "getBalance"} : CheckBalance(op, "t1")
  \/ CheckBalanceProvision
  \/ /\ ClientMayCall
     /\ \E fault \in BOOLEAN : DeductCredit("t1", 1, fault)
  \/ /\ ClientMayCall
     /\ \E fault \in BOOLEAN : AddCredits("t1", 1, fault)
  \/ \E tone \in {"minimalist", ""} : Approve("t1", tone)

LifecycleSpec == LifecycleInit /\ [][LifecycleNext]_vars

\* One merchant's browser on the two pages of the app, while the merchant
\* may approve and the shop row may be provisioned.
NavigationInit ==
  /\ Init
  /\ DOMAIN productState = {}
  /\ DOMAIN shop \subseteq {"t1"}

NavigationNext ==
  \/ \E page \in {"/app", "/app/onboarding"} : Navigate("t1", page)
  \/ Load
  \/ \E tone \in BrandToneInputs : Approve("t1", tone)
  \/ CheckBalance("checkBalance", "t1")
  \/ CheckBalanceProvision

NavigationSpec == NavigationInit /\ [][NavigationNext]_vars

\* Callers of syncSchemaToMetafield, with empty tables.
SyncInit ==
  /\ Init
  /\ DOMAIN shop = {}
  /\ DOMAIN productState = {}

SyncNext ==
  \E p \in Products, delivery \in Deliveries : Sync(p, delivery)

SyncSpec == SyncInit /\ [][SyncNext]_vars

\* Callers of the hasher, with empty tables.
HashInit ==
  /\ Init
  /\ DOMAIN shop = {}
  /\ DOMAIN productState = {}

HashNext == \E product \in ProductInputs : Hash(product)

HashSpec == HashInit /\ [][HashNext]_vars

\* ------------------------------------------------------------ properties
Finished(at) == at.pc \in {"returned", "thrown"}

\* Positions of the events of one kind in an attempt's call log.
Events(at, op, ev) ==
  {i \in 1..Len(at.calls) : at.calls[i].op = op /\ at.calls[i].ev = ev}

Has(at, op, ev) == Events(at, op, ev) # {}

\* No other request for the same shop has started.
AloneOnShop(a) ==
  \A b \in Attempts \ {a} :
     attempt[b].pc = "idle" \/ attempt[b].shopId # attempt[a].shopId

RECURSIVE SumDebited(_)
SumDebited(S) ==
  IF S = {} THEN 0
  ELSE LET a == CHOOSE x \in S : TRUE
       IN attempt[a].debited + SumDebited(S \ {a})

C2_NoCreditsThrows402 ==
  \A a \in Attempts :
     LET at == attempt[a]
     IN (Has(at, "checkBalance", "return") /\ ~at.balance.hasCredits) =>
          /\ at.pc = "thrown"
          /\ \E i \in 1..Len(at.error) : at.error[i] = "402"
          /\ ~Has(at, "generateObject", "call")
          /\ ~Has(at, "deductCredit", "call")
          /\ at.debited = 0
          /\ AloneOnShop(a) => findUnique(shop, at.shopId) = at.before

C2_Witness ==
  \E a \in Attempts :
     /\ attempt[a].pc = "thrown"
     /\ attempt[a].error = Error402
     /\ attempt[a].before = <<ShopRow(0)>>
     /\ AloneOnShop(a)

\* C3: when generateObject fails, deductCredit is not called, the run debits
\* nothing, and the shop's balance is the one checkBalance reported (for a shop
\* that existed: the row is as it was before the run).
C3_NoDebitOnGenerationFailure ==
  \A a \in Attempts :
     LET at == attempt[a]
     IN Has(at, "generateObject", "throw") =>
          /\ at.pc = "thrown"
          /\ ~Has(at, "deductCredit", "call")
          /\ at.debited = 0
          /\ AloneOnShop(a) =>
               /\ at.shopId \in DOMAIN shop
               /\ shop[at.shopId].credits = at.balance.balance
               /\ at.before # <<>> => findUnique(shop, at.shopId) = at.before

C3_Witness ==
  \E a \in Attempts :
     /\ attempt[a].pc = "thrown"
     /\ attempt[a].error = ErrorOpenAI
     /\ attempt[a].before = <<ShopRow(1)>>
     /\ AloneOnShop(a)

\* C4 (as claimed): every shop's credits are >= 0 in every reachable state.
C4_CreditsNonNegative ==
  \A s \in DOMAIN shop : shop[s].credits >= 0

\* C5 (as claimed): deductCredit of more than the balance of an existing shop
\* returns success = false and leaves the balance as it was.
C5_OverdraftRefused ==
  (/\ lastCall.op = "deductCredit"
   /\ lastCall.before # <<>>
   /\ lastCall.amount > lastCall.before[1].credits)
  => /\ ~lastCall.result.success
     /\ shop[lastCall.shopId].credits = lastCall.before[1].credits

\* C6 (as claimed): N concurrent runs against one shop whose balance B is below
\* N debit at most B in total.
C6_ConcurrentRunsDebitAtMostBalance ==
  LET first == attempt[1]
  IN (/\ \A a \in Attempts :
           attempt[a].pc # "idle" /\ attempt[a].shopId = first.shopId
      /\ first.before # <<>>
      /\ first.before[1].credits < NumAttempts)
     => SumDebited(Attempts) <= first.before[1].credits

\* C7 (as claimed): processing a product whose stored contentHash equals the
\* hash of its current fields makes no ledger call and no generateObject call
\* and returns the stored schemaBlob.
C7_UnchangedProductShortCircuits ==
  \A a \in Attempts :
     LET at == attempt[a]
     IN (/\ at.pc # "idle"
         /\ at.product \in DOMAIN productState
         /\ productState[at.product].contentHash
              = ProductHash[Catalog[at.product]])
        => /\ at.calls = <<>>
           /\ at.debited = 0
           /\ Finished(at) =>
                /\ at.pc = "returned"
                /\ at.result[1].schema = productState[at.product].schemaBlob

\* C8 (as claimed): t1 has 1 credit and p1 was never scanned; the first run on
\* p1 succeeds and leaves 0 credits; a second run on p1, started after it,
\* returns without failure and leaves 0 credits; a later run on p2 fails with
\* the 402 error and leaves 0 credits.
C8_ScenarioOneCredit ==
  LET first == attempt[1]
      second == attempt[2]
  IN (/\ "p1" \notin DOMAIN productState
      /\ first.shopId = "t1" /\ first.product = "p1"
      /\ first.before = <<ShopRow(1)>>
      /\ first.pc = "returned" /\ first.deductResult.success
      /\ second.shopId = "t1" /\ second.product = "p1"
      /\ second.before = <<ShopRow(0)>>
      /\ Finished(second))
     => /\ first.result[1].creditsRemaining = 0
        /\ second.pc = "returned"
        /\ second.debited = 0
        /\ shop["t1"].credits = 0
        /\ \A c \in Attempts \ {1, 2} :
             (/\ attempt[c].shopId = "t1" /\ attempt[c].product = "p2"
              /\ attempt[c].before = <<ShopRow(0)>>
              /\ Finished(attempt[c]))
             => attempt[c].pc = "thrown" /\ attempt[c].error = Error402

\* C9: a successful run has called deductCredit(shopId, 1) exactly once, and
\* what it returns is the schema generateObject returned together with the
\* newBalance of that deductCredit call as creditsRemaining.
C9_SuccessDeductsOneAndReportsNewBalance ==
  \A a \in Attempts :
     LET at == attempt[a]
     IN at.pc = "returned" =>
          /\ Cardinality(Events(at, "deductCredit", "call")) = 1
          /\ \A d \in Events(at, "deductCredit", "call") :
                at.calls[d].shopId = at.shopId /\ at.calls[d].amount = 1
          /\ at.deductResult.success => at.debited = 1
          /\ at.result[1].schema = at.schema[1]
          /\ at.result[1].creditsRemaining = at.deductResult.newBalance
          /\ (at.deductResult.success /\ AloneOnShop(a)) =>
                at.result[1].creditsRemaining = at.balance.balance - 1

C9_Witness ==
  \E a \in Attempts :
     /\ attempt[a].pc = "returned"
     /\ attempt[a].deductResult = [success |-> TRUE, newBalance |-> 9]
     /\ attempt[a].result = <<[schema |-> "schemaB", creditsRemaining |-> 9]>>

\* C10 (as claimed): a run whose deductCredit returned success = false does
\* not end as a normal success.
C10_LedgerFaultSurfaced ==
  \A a \in Attempts :
     attempt[a].pc = "returned" => attempt[a].deductResult.success


\* C11: an answer of the model that lacks a required field or has another
\* @context or @type literal makes generateProductSchema throw; deductCredit is
\* not called, nothing is debited and no ProductState row is written.
C11_InvalidResponseIsGenerationFailure ==
  \A a \in Attempts :
     LET at == attempt[a]
         p == at.product
     IN \A obj \in {at.response[i] : i \in 1..Len(at.response)} :
          (\/ ~({"context", "type", "name", "description", "brand"}
                  \subseteq DOMAIN obj)
           \/ obj.context # "https://schema.org"
           \/ obj.type # "Product")
          => /\ at.pc = "thrown"
             /\ Has(at, "generateObject", "throw")
             /\ ~Has(at, "deductCredit", "call")
             /\ at.debited = 0
             /\ at.result = <<>>
             /\ p \in DOMAIN productState => productState[p] = ScannedRow(p)
             /\ AloneOnShop(a) => shop[at.shopId].credits = at.balance.balance

C11_Witness ==
  \E a \in Attempts :
     /\ attempt[a].pc = "thrown"
     /\ attempt[a].error = ErrorValidation
     /\ attempt[a].response
          = <<[SchemaObject("schemaA") EXCEPT !.context = "http://schema.org"]>>

\* C12: checkBalance on a shop without a row creates the row with 10 credits
\* and returns {hasCredits: true, balance: 10}; on a shop with a row it returns
\* the stored credits; hasCredits is true exactly when balance > 0.
C12_CheckBalanceProvisionsAndReports ==
  \A a \in Attempts :
     LET at == attempt[a]
     IN Has(at, "checkBalance", "return") =>
          /\ at.balance.hasCredits <=> at.balance.balance > 0
          /\ at.before # <<>> => at.balance.balance = at.before[1].credits
          /\ at.before = <<>> =>
               /\ at.balance = [hasCredits |-> TRUE, balance |-> 10]
               /\ at.shopId \in DOMAIN shop
               /\ (AloneOnShop(a) /\ at.pc = "generateObject") =>
                    shop[at.shopId] =
                      [credits |-> 10, brandVoice |-> "null",
                       isOnboarded |-> FALSE]

C12_Witness ==
  \E a, b \in Attempts :
     /\ attempt[a].before = <<>>
     /\ attempt[a].balance = [hasCredits |-> TRUE, balance |-> 10]
     /\ attempt[a].pc = "generateObject"
     /\ AloneOnShop(a)
     /\ attempt[b].before = <<ShopRow(0)>>
     /\ attempt[b].balance = [hasCredits |-> FALSE, balance |-> 0]
     /\ Has(attempt[b], "checkBalance", "return")

\* C13: deductCredit on a shop without a row returns {success: false,
\* newBalance: 0} as a value and creates no row: the shop is still absent.
C13_DeductOnAbsentShopFails ==
  (lastCall.op = "deductCredit" /\ lastCall.before = <<>>)
  => /\ lastCall.result = [success |-> FALSE, newBalance |-> 0]
     /\ ~lastCall.thrown
     /\ lastCall.shopId \notin DOMAIN shop

C13_Witness ==
  /\ lastCall.op = "deductCredit"
  /\ lastCall.before = <<>>
  /\ ~lastCall.fault
  /\ lastCall.result = [success |-> FALSE, newBalance |-> 0]

\* C14: without a storage failure, addCredits on a shop with balance b stores
\* and returns b + amount with success = true; on a shop without a row it
\* creates the row with 10 + amount and returns that balance.
C14_AddCreditsIncrementsOrProvisions ==
  (lastCall.op = "addCredits" /\ ~lastCall.fault)
  => LET expected == IF lastCall.before = <<>>
                       THEN 10 + lastCall.amount
                       ELSE lastCall.before[1].credits + lastCall.amount
     IN /\ lastCall.result = [success |-> TRUE, newBalance |-> expected]
        /\ lastCall.shopId \in DOMAIN shop
        /\ shop[lastCall.shopId].credits = expected

C14_Witness ==
  /\ Len(ledgerLog) = 2
  /\ ledgerLog[1].op = "addCredits" /\ ledgerLog[1].before = <<>>
  /\ ledgerLog[1].result = [success |-> TRUE, newBalance |-> 12]
  /\ ledgerLog[2].op = "addCredits" /\ ledgerLog[2].shopId = ledgerLog[1].shopId
  /\ ledgerLog[2].result = [success |-> TRUE, newBalance |-> 13]

\* C15: a storage failure during deductCredit or addCredits comes back as the
\* value {success: false, newBalance: 0}; the call does not throw and the
\* shop's row is as it was before the call.
C15_StorageFailureReturnsFalse ==
  (lastCall.op \in {"deductCredit", "addCredits"} /\ lastCall.fault)
  => /\ lastCall.result = [success |-> FALSE, newBalance |-> 0]
     /\ ~lastCall.thrown
     /\ findUnique(shop, lastCall.shopId) = lastCall.before

C15_Witness ==
  /\ Len(ledgerLog) = 2
  /\ ledgerLog[1].op = "deductCredit" /\ ledgerLog[1].fault
  /\ ledgerLog[1].before = <<ShopRow(1)>>
  /\ ledgerLog[2].op = "addCredits" /\ ledgerLog[2].fault
  /\ ledgerLog[2].shopId = ledgerLog[1].shopId

\* The change a logged call made to the balance, by its own account.
Signed(call) ==
  IF ~call.result.success THEN 0
  ELSE IF call.op = "deductCredit" THEN 0 - call.amount ELSE call.amount

RECURSIVE NetChange(_, _)
NetChange(s, n) ==
  IF n = 0 THEN 0
  ELSE NetChange(s, n - 1)
         + (IF ledgerLog[n].shopId = s THEN Signed(ledgerLog[n]) ELSE 0)

\* C16: in every order in which concurrent deductCredit and addCredits calls
\* on a shop that has a row reach the storage layer, each successful call
\* returns the balance right after its own update, and the final balance is
\* the initial one minus the deducted plus the added amounts.
C16_RelativeUpdatesLoseNothing ==
  /\ \A i \in 1..Len(ledgerLog) :
        LET call == ledgerLog[i]
        IN (call.result.success /\ call.before # <<>>) =>
              call.result.newBalance = call.before[1].credits + Signed(call)
  /\ \A s \in Shops :
        LET on == {i \in 1..Len(ledgerLog) : ledgerLog[i].shopId = s}
        IN on # {} =>
             LET first == ledgerLog[CHOOSE i \in on : \A j \in on : i <= j]
             IN first.before # <<>> =>
                  /\ s \in DOMAIN shop
                  /\ shop[s].credits
                       = first.before[1].credits + NetChange(s, Len(ledgerLog))

C16_Witness ==
  /\ Len(ledgerLog) = 2
  /\ ledgerLog[1].op = "deductCredit" /\ ledgerLog[1].amount = 2
  /\ ledgerLog[1].before = <<ShopRow(1)>>
  /\ ledgerLog[2].op = "addCredits" /\ ledgerLog[2].amount = 1
  /\ ledgerLog[2].shopId = ledgerLog[1].shopId
  /\ ledgerLog[1].result.success /\ ledgerLog[2].result.success
  /\ shop[ledgerLog[1].shopId].credits = 0

\* ------------------------------------------------------------- onboarding
\* The isOnboarded flag of a shop as a reader of the table sees it now; a
\* shop without a row is not onboarded.
NotOnboarded(tbl, shopId) ==
  shopId \notin DOMAIN tbl \/ ~tbl[shopId].isOnboarded

\* The flag as the attempt's first read of the table saw it.
NotOnboardedAtStart(at) ==
  at.before = <<>> \/ ~at.before[1].isOnboarded

C18_BrandVoiceLockedOnceOnboarded ==
  (/\ lastCall.op = "approve"
   /\ lastCall.before # <<>>
   /\ lastCall.before[1].isOnboarded) =>
     shop[lastCall.shopId].brandVoice = lastCall.before[1].brandVoice

\* ------------------------------------------------------------ persistence
\* C19 (as claimed): when generateProductSchema has returned its result the
\* product's ProductState row holds the hash of the product's current
\* fields, the generated schema and isSynced = false.
C19_ResultPersistedBeforeCompletion ==
  \A a \in Attempts :
     LET at == attempt[a]
     IN at.pc = "returned" =>
          /\ at.product \in DOMAIN productState
          /\ productState[at.product].contentHash
               = ProductHash[Catalog[at.product]]
          /\ productState[at.product].schemaBlob = at.schema[1]
          /\ ~productState[at.product].isSynced

\* ----------------------------------------------------------------- hasher
\* The three field values a digest is about.
Triple(product) ==
  <<Get(product, TitleKey), Get(product, DescriptionKey),
    Get(product, VendorKey)>>

\* C21: two hashed products that differ in title, description or vendor have
\* different canonical strings and different digests.
C21_DistinctFieldsDistinctDigests ==
  \A i, j \in 1..Len(hashed) :
     Triple(hashed[i].product) # Triple(hashed[j].product) =>
        /\ normalized(hashed[i].product) # normalized(hashed[j].product)
        /\ hashed[i].hash # hashed[j].hash

\* C21 witness: two products that differ only in the case of the title have
\* been hashed to different digests.
C21_Witness ==
  /\ Len(hashed) = 2
  /\ hashed[1].product = Product(<<"a">>, <<"a">>, <<>>)
  /\ hashed[2].product = Product(<<"A">>, <<"a">>, <<>>)
  /\ hashed[1].hash # hashed[2].hash

\* C22: two hashed products with equal title, description and vendor have
\* the same digest, whatever their other properties and insertion order.
C22_DigestDependsOnlyOnTriple ==
  \A i, j \in 1..Len(hashed) :
     Triple(hashed[i].product) = Triple(hashed[j].product) =>
        hashed[i].hash = hashed[j].hash

\* C22 witness: a product and an object with the same three values, a price
\* and another insertion order have been hashed to the same digest.
C22_Witness ==
  /\ Len(hashed) = 2
  /\ hashed[1].product = WithSku(<<"\"">>, <<"a">>, <<>>)
  /\ hashed[2].product = Reordered(<<"\"">>, <<"a">>, <<>>)
  /\ hashed[1].product # hashed[2].product
  /\ hashed[1].hash = hashed[2].hash

HasMarker402(error) == \E i \in 1..Len(error) : error[i] = "402"

\* C23 (as claimed): a refusal at admission carries the 402 marker; a failure
\* of the adapter reaches the caller as the adapter raised it and does not
\* carry the marker.
C23_QuotaAndGenerationFailuresDistinct ==
  \A a \in Attempts :
     LET at == attempt[a]
     IN at.pc = "thrown" =>
          /\ (Has(at, "checkBalance", "return") /\ ~at.balance.hasCredits) =>
                HasMarker402(at.error)
          /\ Has(at, "generateObject", "throw") =>
                /\ at.rejected = <<at.error>>
                /\ ~HasMarker402(at.error)

\* C24: an attempt calls checkBalance exactly once and generateObject and
\* deductCredit at most once each, whatever they answer.
C24_NoInternalRetry ==
  \A a \in Attempts :
     LET at == attempt[a]
     IN at.pc # "idle" =>
          /\ Cardinality(Events(at, "checkBalance", "call")) = 1
          /\ Cardinality(Events(at, "generateObject", "call")) <= 1
          /\ Cardinality(Events(at, "deductCredit", "call")) <= 1
          /\ Has(at, "generateObject", "throw") =>
                at.pc = "thrown" /\ Len(at.calls) = 4

\* C24 witness: the adapter has rejected, the ledger has failed in another
\* attempt, and neither attempt has called anything a second time.
C24_Witness ==
  \E a, b \in Attempts :
     /\ attempt[a].pc = "thrown" /\ attempt[a].error = ErrorOpenAI
     /\ Cardinality(Events(attempt[a], "generateObject", "call")) = 1
     /\ attempt[b].pc = "returned" /\ ~attempt[b].deductResult.success
     /\ Cardinality(Events(attempt[b], "deductCredit", "call")) = 1

\* ------------------------------------------------------------ ProductState
\* C25: every stored ProductState row with a schemaBlob has a contentHash.
C25_SchemaBlobImpliesContentHash ==
  \A p \in DOMAIN productState :
     productState[p].schemaBlob # NullText =>
        productState[p].contentHash # NullChars

\* C25 witness: a row with a schemaBlob and one without have been written,
\* both with a contentHash.
C25_Witness ==
  /\ DOMAIN productState = Products
  /\ productState["p1"].schemaBlob = NullText
  /\ productState["p2"].schemaBlob = "schemaB"
  /\ productState["p2"].contentHash = ProductHash[Catalog["p2"]]

\* ------------------------------------------------------------- abandonment
\* The balance of t1 before the first request touched it: the stored one,
\* or the default a missing shop is provisioned with.
BalanceAtStart ==
  IF attempt[1].before = <<>> THEN DefaultCredits
                              ELSE attempt[1].before[1].credits

\* C27: an attempt abandoned before its deductCredit call has debited
\* nothing; with no other request on the shop an existing row is as it was
\* before the attempt and a missing one is absent or newly provisioned, and
\* in every interleaving the balance is the one at the start minus the
\* credits debited by completed deductCredit calls.
C27_AbandonedAttemptConsumesNothing ==
  /\ \A a \in Attempts :
        LET at == attempt[a]
        IN (at.pc = "abandoned" /\ ~Has(at, "deductCredit", "call")) =>
             /\ at.debited = 0
             /\ AloneOnShop(a) =>
                  /\ at.before # <<>> =>
                        findUnique(shop, at.shopId) = at.before
                  /\ at.before = <<>> =>
                        findUnique(shop, at.shopId)
                           \in {<<>>, <<create(at.shopId)>>}
  /\ (attempt[1].pc # "idle" /\ "t1" \in DOMAIN shop) =>
        shop["t1"].credits = BalanceAtStart - SumDebited(Attempts)

\* C27 witness: one attempt was abandoned during generation and another
\* while checkBalance was creating the shop; the provisioned balance is
\* untouched.
C27_Witness ==
  \E a, b \in Attempts :
     /\ attempt[a].pc = "abandoned"
     /\ Has(attempt[a], "generateObject", "call")
     /\ ~Has(attempt[a], "deductCredit", "call")
     /\ attempt[b].pc = "abandoned"
     /\ ~Has(attempt[b], "checkBalance", "return")
     /\ shop["t1"].credits = DefaultCredits

\* ------------------------------------------------------- debits and calls
\* The attempts started for a shop.
AttemptsOn(s) ==
  {a \in Attempts : attempt[a].pc # "idle" /\ attempt[a].shopId = s}

\* C28: in every interleaving each attempt has debited nothing or exactly one
\* credit, the latter only after its generateObject call returned; so the
\* debits of a shop number at most its successful generateObject calls, and
\* the stored balance is the starting one minus one credit per debit.
C28_DebitsAtMostSuccessfulGenerations ==
  /\ \A a \in Attempts :
        /\ attempt[a].debited \in {0, 1}
        /\ attempt[a].debited = 1 =>
              /\ Has(attempt[a], "generateObject", "return")
              /\ Has(attempt[a], "deductCredit", "return")
  /\ \A s \in Shops :
        LET on == AttemptsOn(s)
            generated ==
              {a \in on : Has(attempt[a], "generateObject", "return")}
        IN /\ SumDebited(on) <= Cardinality(generated)
           /\ (on # {} /\ s \in DOMAIN shop) =>
                LET first == attempt[CHOOSE a \in on : \A b \in on : a <= b]
                    start == IF first.before = <<>>
                               THEN DefaultCredits
                               ELSE first.before[1].credits
                IN shop[s].credits = start - SumDebited(on)

\* C28 witness: two interleaved attempts on one shop, both generated, one
\* debited and one whose ledger update failed.
C28_Witness ==
  /\ attempt[1].shopId = attempt[2].shopId
  /\ attempt[1].pc = "returned" /\ attempt[2].pc = "returned"
  /\ attempt[1].calls[3].op = "generateObject"
  /\ attempt[1].before = <<ShopRow(1)>>
  /\ attempt[2].before = attempt[1].before
  /\ attempt[1].debited = 1 /\ attempt[2].debited = 0
  /\ shop[attempt[1].shopId].credits = 0

\* ------------------------------------------------------------ provisioning
\* C29 (as claimed): when two checkBalance calls for the same shop both found
\* no row, both return hasCredits = true with balance 10 and neither fails.
C29_ConcurrentProvisioningBothSucceed ==
  \A a, b \in Attempts :
     (/\ a # b
      /\ attempt[a].shopId = attempt[b].shopId
      /\ attempt[a].pc \notin {"idle", "create"}
      /\ attempt[b].pc \notin {"idle", "create"}
      /\ attempt[a].before = <<>> /\ attempt[b].before = <<>>)
     => /\ attempt[a].shopId \in DOMAIN shop
        /\ \A c \in {a, b} :
              /\ Has(attempt[c], "checkBalance", "return")
              /\ ~Has(attempt[c], "checkBalance", "throw")
              /\ attempt[c].balance
                   = [hasCredits |-> TRUE, balance |-> DefaultCredits]

\* -------------------------------------------------------------- termination
\* How an attempt ended, by the three exits of the orchestrator.
QuotaExhausted(at) ==
  /\ at.pc = "thrown"
  /\ Has(at, "checkBalance", "return") /\ ~at.balance.hasCredits
  /\ ~Has(at, "generateObject", "call")

GenerationFailure(at) ==
  at.pc = "thrown" /\ Has(at, "generateObject", "throw")

Success(at) == at.pc = "returned"

\* C30 (as claimed, outcome part): an attempt that has ended has ended as
\* exactly one of quota exhausted, generation failure and success.
C30_EndsInOneOfThreeOutcomes ==
  \A a \in Attempts :
     LET at == attempt[a]
     IN Finished(at) =>
          Cardinality({k \in {"quota", "generation", "success"} :
                          \/ k = "quota" /\ QuotaExhausted(at)
                          \/ k = "generation" /\ GenerationFailure(at)
                          \/ k = "success" /\ Success(at)}) = 1

\* C30 (termination part): when every pending boundary call resolves or
\* rejects, every started attempt ends.
C30_EveryAttemptEnds ==
  \A a \in Attempts : (attempt[a].pc # "idle") ~> Finished(attempt[a])


\* The tenant a step's operation is keyed by: the shopId of the page request,
\* of the direct ledger call or of the direct balance call that moved.
KeyedBy(s) ==
  \/ \E a \in Attempts : attempt'[a] # attempt[a] /\ attempt'[a].shopId = s
  \/ ledgerCalls' # ledgerCalls /\ lastCall'.shopId = s
  \/ balanceLog' # balanceLog /\ balanceLog'[Len(balanceLog')].shopId = s

\* The balances a step reports are those of the row of tenant s.
ReportsRowOf(s) ==
  /\ \A a \in Attempts :
       /\ attempt'[a].balance # attempt[a].balance
            => attempt'[a].balance.balance = shop'[s].credits
       /\ (attempt'[a].deductResult # attempt[a].deductResult
             /\ attempt'[a].deductResult.success)
            => attempt'[a].deductResult.newBalance = shop'[s].credits
  /\ (ledgerCalls' # ledgerCalls /\ lastCall'.result.success)
       => lastCall'.result.newBalance = shop'[s].credits
  /\ (balanceLog' # balanceLog
        /\ balanceLog'[Len(balanceLog')].pc = "returned")
       => balanceLog'[Len(balanceLog')].result.balance = shop'[s].credits

\* C31: ledger operations are keyed by tenant identity: a step of
\* checkBalance, getBalance, deductCredit, addCredits or generateProductSchema
\* for one tenant leaves the row of every other tenant as it was (neither
\* created nor changed), and every balance it reports is that of its own
\* tenant's row.
C31_LedgerKeyedByTenant ==
  [][\A s \in Shops :
       /\ KeyedBy(s) => ReportsRowOf(s)
       /\ ~KeyedBy(s) => findUnique(shop', s) = findUnique(shop, s)]_vars

\* C31 witness: the page request, a direct addCredits and a direct balance
\* call all ran for t1 and changed its balance, while t2 holds another
\* balance that nothing touched.
C31_Witness ==
  /\ attempt[1].pc = "returned" /\ attempt[1].shopId = "t1"
  /\ ledgerCalls = 1 /\ lastCall.op = "addCredits"
  /\ lastCall.shopId = "t1" /\ lastCall.result.success
  /\ Len(balanceLog) = 1 /\ balanceLog[1].shopId = "t1"
  /\ balanceLog[1].pc = "returned"
  /\ "t2" \in DOMAIN shop /\ "t1" \in DOMAIN shop
  /\ shop["t2"].credits = 0
  /\ shop["t1"].credits = 1
  /\ balanceLog[1].result.balance = 2


\* C32: checkBalance on an existing tenant is read-only (the Shop table is
\* left exactly as it was, so credits, brandVoice and isOnboarded are
\* unchanged), whether called directly, through getBalance or by
\* generateProductSchema; two consecutive calls for a tenant with no ledger
\* write in between return the same result; and the row it provisions for a
\* missing tenant has isOnboarded = false and no brandVoice.
C32_CheckBalanceReadOnly ==
  [][/\ \A a \in Attempts :
          (attempt[a].pc = "idle" /\ attempt'[a].pc # "idle"
             /\ attempt'[a].before # <<>>) => shop' = shop
     /\ balanceLog' # balanceLog =>
          LET n == Len(balanceLog')
              call == balanceLog'[n]
          IN /\ call.before # <<>> => shop' = shop
             /\ (call.before = <<>> /\ call.pc = "returned") =>
                  /\ ~shop'[call.shopId].isOnboarded
                  /\ shop'[call.shopId].brandVoice = NullText
             /\ (/\ n > 1
                 /\ call.pc = "returned"
                 /\ balanceLog'[n - 1].pc = "returned"
                 /\ balanceLog'[n - 1].shopId = call.shopId
                 /\ balanceLog'[n - 1].ledgerOps = call.ledgerOps) =>
                  balanceLog'[n - 1].result = call.result]_vars

\* C32 witness: a first call provisioned the tenant, the merchant approved,
\* and a second call read the onboarded row with its brandVoice and
\* returned the same result, with no ledger write in between.
C32_Witness ==
  /\ Len(balanceLog) = 2
  /\ balanceLog[1].pc = "returned" /\ balanceLog[1].before = <<>>
  /\ balanceLog[2].pc = "returned" /\ balanceLog[2].before # <<>>
  /\ balanceLog[2].before[1].isOnboarded
  /\ balanceLog[2].before[1].brandVoice = BRAND_TONES["minimalist"]
  /\ balanceLog[1].ledgerOps = balanceLog[2].ledgerOps
  /\ balanceLog[1].result = balanceLog[2].result
  /\ shop["t1"] = balanceLog[2].before[1]


\* C33: the 'approve' action never changes the credits of an existing tenant,
\* it writes only brandVoice and isOnboarded; for a tenant without a row it
\* creates the row with the default 10 credits and isOnboarded = true.
C33_ApproveKeepsCredits ==
  [][(lastCall' # lastCall /\ lastCall'.op = "approve") =>
       LET s == lastCall'.shopId
       IN IF s \in DOMAIN shop
            THEN /\ s \in DOMAIN shop'
                 /\ shop'[s].credits = shop[s].credits
                 /\ shop'[s] = [shop[s] EXCEPT
                                  !.brandVoice = shop'[s].brandVoice,
                                  !.isOnboarded = shop'[s].isOnboarded]
            ELSE IF lastCall'.result.success
                   THEN /\ s \in DOMAIN shop'
                        /\ shop'[s].credits = 10
                        /\ shop'[s].isOnboarded
                   ELSE shop' = shop]_vars

\* C33 witness: a merchant whose balance addCredits had raised to 2 approved
\* a tone; the row is onboarded and still holds 2 credits.
C33_Witness ==
  /\ lastCall.op = "approve" /\ lastCall.result.success
  /\ lastCall.before # <<>>
  /\ lastCall.before[1].credits = 2
  /\ ~lastCall.before[1].isOnboarded
  /\ shop["t1"].isOnboarded
  /\ shop["t1"].credits = 2


\* The tenant has a row with isOnboarded = true.
Onboarded(tbl, s) == s \in DOMAIN tbl /\ tbl[s].isOnboarded

\* C34: isOnboarded is monotonic: no step of checkBalance, getBalance,
\* deductCredit, addCredits, a generation or an approval takes a tenant from
\* isOnboarded = true back to false or removes its row, and a tenant becomes
\* onboarded only in a step of 'approve' that carried a brand tone, which is
\* then the stored brandVoice.
C34_IsOnboardedMonotonic ==
  [][\A s \in Shops :
       /\ Onboarded(shop, s) => Onboarded(shop', s)
       /\ (~Onboarded(shop, s) /\ Onboarded(shop', s)) =>
            /\ lastCall' # lastCall
            /\ lastCall'.op = "approve"
            /\ lastCall'.shopId = s
            /\ lastCall'.result.success
            /\ \E tone \in DOMAIN BRAND_TONES :
                  shop'[s].brandVoice = BRAND_TONES[tone]]_vars

\* C34 witness: after the approval a generation finished, addCredits ran and
\* checkBalance was called, all on the onboarded row, and the tenant is
\* still onboarded.
C34_Witness ==
  /\ Onboarded(shop, "t1")
  /\ attempt[1].pc = "returned"
  /\ attempt[1].before # <<>> /\ attempt[1].before[1].isOnboarded
  /\ lastCall.op = "addCredits" /\ lastCall.result.success
  /\ lastCall.before # <<>> /\ lastCall.before[1].isOnboarded
  /\ Len(balanceLog) = 1 /\ balanceLog[1].pc = "returned"
  /\ balanceLog[1].before # <<>> /\ balanceLog[1].before[1].isOnboarded


\* C35: in every tenant state (no row, not onboarded, onboarded) exactly one
\* of the two loaders redirects: the dashboard loader to /app/onboarding
\* iff the tenant is absent or not onboarded, the onboarding loader to /app
\* iff the tenant is onboarded; so a browser that follows redirects while
\* the tenant's onboarding state stays what it was when the request started
\* is served a page after at most one hop, and there is no redirect loop
\* even when an approval lands between two hops (two hops at most).
C35_OneLoaderRedirects ==
  /\ \A s \in Shops :
       /\ dashboardLoader(shop, s) =
            IF Onboarded(shop, s) THEN <<>> ELSE <<"/app/onboarding">>
       /\ onboardingLoader(shop, s) =
            IF Onboarded(shop, s) THEN <<"/app">> ELSE <<>>
       /\ (dashboardLoader(shop, s) = <<>>) # (onboardingLoader(shop, s) = <<>>)
  /\ (/\ nav.pc # "none"
      /\ (nav.started # <<>> /\ nav.started[1].isOnboarded)
           = Onboarded(shop, nav.shopDomain)) =>
       /\ nav.hops <= 1
       /\ nav.hops = 1 => loader(nav.page, shop, nav.shopDomain) = <<>>
  /\ nav.hops <= 2

\* C35 witness: an onboarded merchant asked for /app/onboarding, was
\* redirected once, and /app was rendered.
C35_Witness ==
  /\ nav.pc = "rendered"
  /\ nav.first = "/app/onboarding" /\ nav.page = "/app"
  /\ nav.hops = 1
  /\ nav.started # <<>> /\ nav.started[1].isOnboarded
  /\ Onboarded(shop, "t1")

\* C36 (as claimed): getBalance(shop) returns the shop's current balance, or
\* 0 if the shop is not found: every getBalance call that returned gave the
\* credits of the row it found, and 0 when it found none.
C36_GetBalanceZeroWhenNotFound ==
  \A i \in 1..Len(balanceLog) :
    (balanceLog[i].op = "getBalance" /\ balanceLog[i].pc = "returned") =>
       balanceLog[i].balance =
         IF balanceLog[i].before = <<>> THEN 0
                                        ELSE balanceLog[i].before[1].credits

\* C37: for an existing tenant with balance b and an amount a >= 0,
\* addCredits(tenant, a) directly followed by deductCredit(tenant, a), both
\* without a storage error, restores the balance to b, and the deductCredit
\* returns {success: true, newBalance: b}.
C37_AddThenDeductRestores ==
  \A i \in 1..(Len(ledgerLog) - 1) :
    LET add == ledgerLog[i]
        deduct == ledgerLog[i + 1]
    IN (/\ add.op = "addCredits" /\ ~add.fault /\ add.before # <<>>
        /\ deduct.op = "deductCredit" /\ ~deduct.fault
        /\ deduct.shopId = add.shopId /\ deduct.amount = add.amount) =>
         /\ deduct.result =
              [success |-> TRUE, newBalance |-> add.before[1].credits]
         /\ (i + 1 = Len(ledgerLog)) =>
              shop[add.shopId].credits = add.before[1].credits

\* C37 witness: a tenant with 1 credit got 2 more and was then charged 2;
\* the charge returned newBalance 1 and the row holds 1 credit again.
C37_Witness ==
  /\ Len(ledgerLog) = 2
  /\ ledgerLog[1].op = "addCredits" /\ ledgerLog[1].shopId = "t1"
  /\ ledgerLog[1].amount = 2 /\ ledgerLog[1].before # <<>>
  /\ ledgerLog[1].before[1].credits = 1
  /\ ledgerLog[1].result = [success |-> TRUE, newBalance |-> 3]
  /\ ledgerLog[2].op = "deductCredit" /\ ledgerLog[2].shopId = "t1"
  /\ ledgerLog[2].amount = 2
  /\ ledgerLog[2].result = [success |-> TRUE, newBalance |-> 1]
  /\ shop["t1"].credits = 1

\* The userErrors a decoded delivery carries (none when a member is absent).
UserErrorsOf(delivery) ==
  IF delivery.at # "decoded" \/ delivery.body.data = <<>> THEN <<>>
  ELSE IF delivery.body.data[1].metafieldsSet = <<>> THEN <<>>
  ELSE IF delivery.body.data[1].metafieldsSet[1].userErrors = <<>> THEN <<>>
  ELSE delivery.body.data[1].metafieldsSet[1].userErrors[1]

\* C38: syncSchemaToMetafield never throws; it returns success = false with
\* the messages joined by ', ' when the response carries one or more
\* userErrors, success = false with the error's message when admin.graphql
\* or response.json() throws an Error, and success = true otherwise; the
\* result always says success or failure, so the caller can decide on
\* isSynced.
C38_SyncNeverThrows ==
  \A i \in 1..Len(syncLog) :
    LET delivery == syncLog[i].delivery
        result == syncLog[i].result
        errs == UserErrorsOf(delivery)
    IN /\ ~result.threw
       /\ result.success \in BOOLEAN
       /\ delivery.at \in {"graphql", "json"} =>
            /\ ~result.success
            /\ delivery.thrown.isError =>
                 result.error = <<delivery.thrown.message>>
            /\ result.error # <<>>
       /\ (delivery.at = "decoded" /\ Len(errs) = 1) =>
            /\ ~result.success
            /\ result.error = <<errs[1].message>>
       /\ (delivery.at = "decoded" /\ Len(errs) = 2) =>
            /\ ~result.success
            /\ result.error =
                 <<errs[1].message \o <<", ">> \o errs[2].message>>
       /\ (delivery.at = "decoded" /\ Len(errs) = 0) =>
            /\ result.success
            /\ result.error = <<>>

\* C38 witness: one call got two userErrors and returned their messages
\* joined, another had response.json() throw and returned that message.
C38_Witness ==
  /\ Len(syncLog) = 2
  /\ Len(UserErrorsOf(syncLog[1].delivery)) = 2
  /\ ~syncLog[1].result.success
  /\ syncLog[1].result.error =
       <<<<"Owner", "not", "found", ", ", "Key", "is", "too", "long">>>>
  /\ syncLog[2].delivery.at = "json"
  /\ syncLog[2].delivery.thrown = ErrorSyntax
  /\ syncLog[2].result =
       [success |-> FALSE, metafieldId |-> <<>>,
        error |-> <<<<"Unexpected", "token">>>>, threw |-> FALSE]

====
